---- MODULE Spec2Model ----
(***************************************************************************)
(* A model of the planning helpers of repp/defrag:                         *)
(*   - node.distTo / reach / synthDist / costTo   (the reachability and    *)
(*     cost model of the assembly search),                                 *)
(*   - assembleFragments' offset pass,                                     *)
(*   - newEnzyme / digest (backbone linearisation),                        *)
(*   - EnzymeDB.SetCmd / DeleteCmd / NewEnzymeDB (the enzyme store).       *)
(* Strings are sequences of one-character strings.  Slice indices are      *)
(* 0-based as in the Go source; At and Slice convert.                      *)
(***************************************************************************)
EXTENDS Integers, Sequences, FiniteSets, TLC

VARIABLES
    nodes,      \* the []node slice handed to reach
    conf,       \* the package-level configuration read by synthDist / costTo
    ret,        \* the last call of a node method and what it returned
    frags,      \* assembleFragments: the frags, each with len(Seq), start and end
    junctionLens, \* len(frags[i].junction(frags[(i+1)%len(frags)], ...)) per i
    junction,   \* assembleFragments: len(junction), the local of the offset pass
    vectorSeq,  \* assembleFragments: vectorSeq.Len()
    fi,         \* assembleFragments: the loop index i
    targetVector, \* len(targetVector.Seq) once built, -1 before
    recogSeq,   \* the recognition string handed to newEnzyme
    enz,        \* the enzyme newEnzyme returned
    stored,     \* the sequence of the database entry frag was read from
    frag,       \* the *Frag handed to digest (digest may rewrite frag.Seq)
    dig,        \* what digest returned
    enzymeFile, \* the text of the file at config.EnzymeDB
    enzymes,    \* EnzymeDB.enzymes: the in-memory map, name -> recognition sequence
    proc,       \* "running", or "exited" once stderr.Fatal has ended the process
    cmd,        \* the command the process ran last: op, name and sanitized sequence
    out,        \* what the last command reported
    ops         \* how many SetCmd and DeleteCmd calls have been made

nodeVars == <<nodes, conf, ret>>

fragVars == <<frags, junctionLens, junction, vectorSeq, fi, targetVector>>

digVars == <<recogSeq, enz, stored, frag, dig>>

dbVars == <<enzymeFile, enzymes, proc, cmd, out, ops>>

vars == <<nodes, conf, ret, frags, junctionLens, junction, vectorSeq, fi, targetVector,
          recogSeq, enz, stored, frag, dig, enzymeFile, enzymes, proc, cmd, out, ops>>

----------------------------------------------------------------------------
(* Go helpers *)

\* s[i] with a 0-based index
At(s, i) == s[i + 1]

\* s[lo:hi] with 0-based, half-open bounds
Slice(s, lo, hi) == SubSeq(s, lo + 1, hi)

Min(a, b) == IF a <= b THEN a ELSE b

Max(a, b) == IF a >= b THEN a ELSE b

----------------------------------------------------------------------------
(* Bounds of the node model *)

\* longest node slice handed to reach
MaxNodes == 3

\* largest synthCount handed to reach
MaxSynth == 2

\* positions on the target a node may start or end at
Coords == {0, 1, 21, 25}

\* start <= end always (spans are inclusive)
Nodes == {n \in [start : Coords, end : Coords] : n.start <= n.end}

\* the slice is sorted by start: ascending, or descending as reach's comment has it
Ascending(ns) == \A k \in 1..(Len(ns) - 1) : ns[k].start <= ns[k + 1].start

Descending(ns) == \A k \in 1..(Len(ns) - 1) : ns[k].start >= ns[k + 1].start

NodeLists ==
    {ns \in UNION {[1..k -> Nodes] : k \in 1..MaxNodes} : Ascending(ns) \/ Descending(ns)}

\* Costs are in whole cost units: float32 arithmetic is exact on these values.
Confs ==
    { [PCR |-> [BPCost |-> 1], Synthesis |-> [BPCost |-> 2, MaxLength |-> 6]],
      [PCR |-> [BPCost |-> 3], Synthesis |-> [BPCost |-> 1, MaxLength |-> 2]] }

----------------------------------------------------------------------------
(* node methods *)

\* the homology threshold of reach and costTo: "n.distTo(nodes[i]) < -20"
MinOverlap == 20

\* the primer length assumption of costTo: "60 * conf.PCR.BPCost"
PrimerBP == 60

distTo(n, other) == other.end - n.start

RECURSIVE reachLoop(_, _, _, _, _)
reachLoop(n, ns, i, synthCount, reachable) ==
    LET j == i + 1 IN
    IF j >= Len(ns) THEN reachable
    ELSE IF distTo(n, At(ns, j)) < -MinOverlap
         THEN reachLoop(n, ns, j, synthCount, Append(reachable, At(ns, j)))
    ELSE IF synthCount > 0
         THEN reachLoop(n, ns, j, synthCount - 1, Append(reachable, At(ns, j)))
    ELSE reachable

\* reach with the budget test written "synthCount >= 0"
reachBudgetOffByOne(n, ns, i, synthCount) == reachLoop(n, ns, i, synthCount + 1, <<>>)

reach(n, ns, i, synthCount) == reachLoop(n, ns, i, synthCount, <<>>)

\* int(math.Ceil(float64(a) / float64(b))) for a > 0, b > 0
CeilDiv(a, b) == IF a % b = 0 THEN a \div b ELSE (a \div b) + 1

\* synthDist with integer division in place of math.Ceil
synthDistFloor(n, other) ==
    LET dist == distTo(n, other) IN
    IF dist > 0 THEN dist \div conf.Synthesis.MaxLength ELSE 0

synthDist(n, other) ==
    LET dist == distTo(n, other) IN
    IF dist > 0 THEN CeilDiv(dist, conf.Synthesis.MaxLength) ELSE 0

\* costTo with the threshold test written "dist <= -20"
costToInclusive(n, other) ==
    LET dist == distTo(n, other) IN
    IF dist <= -MinOverlap THEN PrimerBP * conf.PCR.BPCost
    ELSE dist * conf.Synthesis.BPCost

costTo(n, other) ==
    LET dist == distTo(n, other) IN
    IF dist < -MinOverlap THEN PrimerBP * conf.PCR.BPCost
    ELSE dist * conf.Synthesis.BPCost

----------------------------------------------------------------------------
(* Calls of the node methods: one call per run, on the inputs Init drew *)

NoRet == [op |-> "none", i |-> 0, j |-> 0, synthCount |-> 0, reachable |-> <<>>, val |-> 0]

IdleNode ==
    /\ nodes = <<>>
    /\ conf = [PCR |-> [BPCost |-> 1], Synthesis |-> [BPCost |-> 2, MaxLength |-> 6]]
    /\ ret = NoRet

InitNode ==
    /\ nodes \in NodeLists
    /\ conf \in Confs
    /\ ret = NoRet

\* nodes[i].reach(nodes, i, synthCount)
Reach(i, synthCount) ==
    /\ ret.op = "none"
    /\ ret' = [op |-> "reach", i |-> i, j |-> 0, synthCount |-> synthCount,
               reachable |-> reach(At(nodes, i), nodes, i, synthCount), val |-> 0]
    /\ UNCHANGED <<nodes, conf>>
    /\ UNCHANGED <<fragVars, digVars, dbVars>>

\* nodes[i].distTo(nodes[j])
DistTo(i, j) ==
    /\ ret.op = "none"
    /\ ret' = [op |-> "distTo", i |-> i, j |-> j, synthCount |-> 0,
               reachable |-> <<>>, val |-> distTo(At(nodes, i), At(nodes, j))]
    /\ UNCHANGED <<nodes, conf>>
    /\ UNCHANGED <<fragVars, digVars, dbVars>>

\* nodes[i].synthDist(nodes[j])
SynthDist(i, j) ==
    /\ ret.op = "none"
    /\ ret' = [op |-> "synthDist", i |-> i, j |-> j, synthCount |-> 0,
               reachable |-> <<>>, val |-> synthDist(At(nodes, i), At(nodes, j))]
    /\ UNCHANGED <<nodes, conf>>
    /\ UNCHANGED <<fragVars, digVars, dbVars>>

\* nodes[i].costTo(nodes[j])
CostTo(i, j) ==
    /\ ret.op = "none"
    /\ ret' = [op |-> "costTo", i |-> i, j |-> j, synthCount |-> 0,
               reachable |-> <<>>, val |-> costTo(At(nodes, i), At(nodes, j))]
    /\ UNCHANGED <<nodes, conf>>
    /\ UNCHANGED <<fragVars, digVars, dbVars>>

NextNode ==
    \/ \E i \in 0..(Len(nodes) - 1), sc \in 0..MaxSynth : Reach(i, sc)
    \/ \E i \in 0..(Len(nodes) - 1), j \in 0..(Len(nodes) - 1) : DistTo(i, j)
    \/ \E i \in 0..(Len(nodes) - 1), j \in 0..(Len(nodes) - 1) : SynthDist(i, j)
    \/ \E i \in 0..(Len(nodes) - 1), j \in 0..(Len(nodes) - 1) : CostTo(i, j)

----------------------------------------------------------------------------
(* assembleFragments: the pass that sets each frag's start and end and builds
   the target vector.  Only lengths matter to the offsets, so a frag carries
   len(Seq) and the junction between neighbours is given by its length. *)

\* most fragments handed to assembleFragments
MaxFrags == 3

\* longest fragment sequence
MaxFragLen == 4

FragLists == UNION {[1..k -> 1..MaxFragLen] : k \in 1..MaxFrags}

\* frags[(i+1)%len(frags)], as a 1-based index, for the 0-based i
NextFrag(lens, i) == ((i + 1) % Len(lens)) + 1

\* a junction is a suffix of one frag and a prefix of the next
JunctionLens(lens) ==
    {j \in [0..(Len(lens) - 1) -> 0..MaxFragLen] :
        \A i \in 0..(Len(lens) - 1) :
            j[i] <= Min(At(lens, i), lens[NextFrag(lens, i)])}

IdleFrags ==
    /\ frags = <<>>
    /\ junctionLens = <<>>
    /\ junction = 0
    /\ vectorSeq = 0
    /\ fi = 0
    /\ targetVector = -1

\* the state when the offset loop is entered: every frag at start 0, end 0 and
\* junction holding the overlap of the last frag with the first
InitFrags ==
    \E lens \in FragLists :
        /\ frags = [k \in 1..Len(lens) |-> [len |-> lens[k], start |-> 0, end |-> 0]]
        /\ junctionLens \in JunctionLens(lens)
        /\ junction = junctionLens[Len(lens) - 1]
        /\ vectorSeq = 0
        /\ fi = 0
        /\ targetVector = -1

\* the start the loop body gives frag n
fragStart(n) == vectorSeq - junction

\* one iteration of "for i, n := range frags"
AssembleStep ==
    /\ fi < Len(frags)
    /\ LET n == At(frags, fi)
           start == fragStart(n)
       IN  /\ frags' = [frags EXCEPT ![fi + 1] =
                            [len |-> n.len, start |-> start, end |-> start + n.len - 1]]
           /\ junction' = junctionLens[fi]
           /\ vectorSeq' = vectorSeq + (n.len - junctionLens[fi])
    /\ fi' = fi + 1
    /\ UNCHANGED <<junctionLens, targetVector>>
    /\ UNCHANGED <<nodeVars, digVars, dbVars>>

\* targetVector = Frag{Seq: vectorSeq.String(), Type: circular}
BuildTarget ==
    /\ fi = Len(frags)
    /\ Len(frags) >= 1
    /\ targetVector = -1
    /\ targetVector' = vectorSeq
    /\ UNCHANGED <<frags, junctionLens, junction, vectorSeq, fi>>
    /\ UNCHANGED <<nodeVars, digVars, dbVars>>

NextFrags == AssembleStep \/ BuildTarget

----------------------------------------------------------------------------
(* newEnzyme and digest *)

\* strings.Index(s, c): the 0-based index of the first c in s, -1 when absent
Index(s, c) ==
    IF \E k \in 1..Len(s) : s[k] = c
    THEN (CHOOSE k \in 1..Len(s) : s[k] = c /\ \A k2 \in 1..(k - 1) : s[k2] # c) - 1
    ELSE -1

\* strings.Replace(s, c, "", -1)
Remove(s, c) == SelectSeq(s, LAMBDA x : x # c)

\* newEnzyme that leaves the later marker's index uncorrected for the earlier one
newEnzymeNoShift(recogSeq0) ==
    [name |-> <<>>,
     recog |-> Remove(Remove(recogSeq0, "^"), "_"),
     seqCutIndex |-> Index(recogSeq0, "^"),
     compCutIndex |-> Index(recogSeq0, "_")]

newEnzyme(recogSeq0) ==
    LET cutIndex == Index(recogSeq0, "^")
        hangIndex == Index(recogSeq0, "_")
    IN  [name |-> <<>>,
         recog |-> Remove(Remove(recogSeq0, "^"), "_"),
         seqCutIndex |-> IF cutIndex < hangIndex THEN cutIndex ELSE cutIndex - 1,
         compCutIndex |-> IF cutIndex < hangIndex THEN hangIndex - 1 ELSE hangIndex]

\* the regexDecode table of recogRegex: each code and the bases it stands for
regexDecode ==
    [c \in {"A", "C", "G", "T", "M", "R", "W", "Y", "S", "K", "H", "D", "V", "B", "N", "X"} |->
        CASE c = "A" -> {"A"}
          [] c = "C" -> {"C"}
          [] c = "G" -> {"G"}
          [] c = "T" -> {"T"}
          [] c = "M" -> {"A", "C"}
          [] c = "R" -> {"A", "G"}
          [] c = "W" -> {"A", "T"}
          [] c = "Y" -> {"C", "T"}
          [] c = "S" -> {"C", "G"}
          [] c = "K" -> {"G", "T"}
          [] c = "H" -> {"A", "C", "T"}
          [] c = "D" -> {"A", "G", "T"}
          [] c = "V" -> {"A", "C", "G"}
          [] c = "B" -> {"C", "G", "T"}
          [] c = "N" -> {"A", "C", "G", "T"}
          [] c = "X" -> {"A", "C", "G", "T"}]

\* recogRegex: one character class per known code; an unknown code adds nothing
RECURSIVE recogRegex(_)
recogRegex(recog) ==
    IF recog = <<>> THEN <<>>
    ELSE (IF Head(recog) \in DOMAIN regexDecode
          THEN <<regexDecode[Head(recog)]>> ELSE <<>>) \o recogRegex(Tail(recog))

\* the regex reg matches s at the 0-based index i
MatchAt(reg, s, i) ==
    /\ i + Len(reg) <= Len(s)
    /\ \A k \in 1..Len(reg) : s[i + k] \in reg[k]

\* reg.MatchString(s)
MatchString(reg, s) == \E i \in 0..Len(s) : MatchAt(reg, s, i)

\* reg.FindStringIndex(s)[0]: the start of the leftmost match
FindStringIndex(reg, s) ==
    CHOOSE i \in 0..Len(s) :
        MatchAt(reg, s, i) /\ \A i2 \in 0..(i - 1) : ~MatchAt(reg, s, i2)

complement(c) ==
    CASE c = "A" -> "T"
      [] c = "T" -> "A"
      [] c = "C" -> "G"
      [] c = "G" -> "C"
      [] OTHER -> c

\* reverseComplement: the complement of each base, in reverse order
reverseComplement(s) == [k \in 1..Len(s) |-> complement(s[Len(s) + 1 - k])]

\* Go's a % b for b > 0: the remainder has the sign of a
GoMod(a, b) == IF a >= 0 THEN a % b ELSE -((-a) % b)

\* "largest current recognition site in the list of enzymes"
WrappedBp == 38

\* the stored sequence with the doubling of a circular part undone
undouble(seq) ==
    LET half == Len(seq) \div 2 IN
    IF Slice(seq, 0, half) = Slice(seq, half, Len(seq)) THEN Slice(seq, 0, half) ELSE seq

\* s[lo:hi] is a valid slice expression
InBounds(s, lo, hi) == 0 <= lo /\ lo <= hi /\ hi <= Len(s)

EmptyFrag == [Seq |-> <<>>]

EmptyBackbone == [Seq |-> <<>>, RecognitionIndex |-> 0, Forward |-> FALSE]

\* digest returned an error
DigestError(seq) ==
    [outcome |-> "error", digested |-> EmptyFrag, backbone |-> EmptyBackbone, fragSeq |-> seq]

\* digest panicked on a slice out of range
DigestPanic(seq) ==
    [outcome |-> "panic", digested |-> EmptyFrag, backbone |-> EmptyBackbone, fragSeq |-> seq]

\* recogIndex and fwd after the two strand searches; -1 when there is no site
findSite(seq, e) ==
    LET reg == recogRegex(e.recog)
        wrapped == seq \o Slice(seq, 0, WrappedBp)
        revCompSeq == reverseComplement(seq) \o reverseComplement(Slice(seq, 0, WrappedBp))
    IN  IF MatchString(reg, wrapped)
        THEN [recogIndex |-> FindStringIndex(reg, wrapped), fwd |-> TRUE]
        ELSE IF MatchString(reg, revCompSeq)
        THEN LET r0 == FindStringIndex(reg, revCompSeq)
                 r1 == Len(seq) - r0 - Len(e.recog)
                 revCutIndex == GoMod(r1 + Len(seq), Len(seq))
             IN  IF revCutIndex >= 0
                 THEN [recogIndex |-> revCutIndex, fwd |-> FALSE]
                 ELSE [recogIndex |-> -1, fwd |-> TRUE]
        ELSE [recogIndex |-> -1, fwd |-> TRUE]

\* the cut of seq at the site: digestedSeq, or a panic when a slice is out of range
cutSeq(seq, e, recogIndex) ==
    LET overhangLength == e.seqCutIndex - e.compCutIndex
        cutIndex == GoMod(recogIndex + e.seqCutIndex, Len(seq))
        topIndex == GoMod(recogIndex + e.compCutIndex, Len(seq))
    IN  IF overhangLength >= 0
        THEN IF InBounds(seq, cutIndex, Len(seq))
             THEN [ok |-> TRUE, seq |-> Slice(seq, cutIndex, Len(seq)) \o Slice(seq, 0, cutIndex)]
             ELSE [ok |-> FALSE, seq |-> <<>>]
        ELSE IF InBounds(seq, topIndex, Len(seq)) /\ InBounds(seq, 0, cutIndex)
             THEN [ok |-> TRUE, seq |-> Slice(seq, topIndex, Len(seq)) \o Slice(seq, 0, cutIndex)]
             ELSE [ok |-> FALSE, seq |-> <<>>]

\* digest after the length check, on the sequence it works with
digestSeq(seq, e) ==
    IF ~InBounds(seq, 0, WrappedBp) THEN DigestPanic(seq)
    ELSE LET site == findSite(seq, e) IN
         IF site.recogIndex = -1 THEN DigestError(seq)
         ELSE LET cut == cutSeq(seq, e, site.recogIndex) IN
              IF ~cut.ok THEN DigestPanic(seq)
              ELSE [outcome |-> "ok",
                    digested |-> [Seq |-> cut.seq],
                    backbone |-> [Seq |-> seq, RecognitionIndex |-> site.recogIndex,
                                  Forward |-> site.fwd],
                    fragSeq |-> seq]

\* digest that searches the sequence as stored
digestNoUndouble(f, e) ==
    IF Len(f.Seq) < WrappedBp THEN DigestError(f.Seq)
    ELSE digestSeq(f.Seq, e)

digest(f, e) ==
    IF Len(f.Seq) < WrappedBp THEN DigestError(f.Seq)
    ELSE digestSeq(undouble(f.Seq), e)

----------------------------------------------------------------------------
(* Inputs of newEnzyme and digest *)

\* sequences up to WrappedBp + MaxExtraLen bases long
MaxExtraLen == 1

\* a motif is moved by up to MaxRot bases across the origin
MaxRot == 4

\* the recognition sites the marker strings are made from
BaseRecogs == { <<"C", "C", "G">>, <<"C", "C", "T", "C", "A", "G", "C">> }

\* base with "^" put at index i and "_" at index j of the result
WithMarkers(base, i, j) ==
    [k \in 0..(Len(base) + 1) |->
        IF k = i THEN "^"
        ELSE IF k = j THEN "_"
        ELSE At(base, k - (IF i < k THEN 1 ELSE 0) - (IF j < k THEN 1 ELSE 0))]

\* a function over 0..n-1 as a sequence
AsSeq(f, n) == [k \in 1..n |-> f[k - 1]]

\* every way of putting one "^" and one "_" into a base site
RecogSeqs ==
    UNION { { AsSeq(WithMarkers(b, ij[1], ij[2]), Len(b) + 2) :
                ij \in {x \in (0..(Len(b) + 1)) \X (0..(Len(b) + 1)) : x[1] # x[2]} } :
            b \in BaseRecogs }

Motifs ==
    { <<>>,
      <<"C", "C", "G">>,
      <<"C", "G", "G">>,
      <<"C", "G", "A", "G">>,
      <<"C", "C", "G", "A", "C", "G", "G">> }

\* s[r:] + s[:r]
Rotate(s, r) == Slice(s, r, Len(s)) \o Slice(s, 0, r)

\* a sequence of n bases: the motif, then A's, turned r bases to the left
Background(motif, n, r) == Rotate(motif \o [k \in 1..(n - Len(motif)) |-> "A"], r)

SeqLens == {WrappedBp \div 2} \cup ((WrappedBp - 1)..(WrappedBp + MaxExtraLen))

FragSeqs ==
    LET singles == { Background(m, n, r) : m \in Motifs, n \in SeqLens, r \in 0..MaxRot }
    IN  singles \cup { s \o s : s \in singles }

NoEnzyme == [name |-> <<>>, recog |-> <<>>, seqCutIndex |-> -1, compCutIndex |-> -1]

NoDigest == [outcome |-> "none", digested |-> EmptyFrag, backbone |-> EmptyBackbone,
             fragSeq |-> <<>>]

IdleDigest ==
    /\ recogSeq = <<>>
    /\ enz = NoEnzyme
    /\ stored = <<>>
    /\ frag = [Seq |-> <<>>]
    /\ dig = NoDigest

InitDigest ==
    /\ recogSeq \in RecogSeqs
    /\ enz = NoEnzyme
    /\ stored \in FragSeqs
    /\ frag = [Seq |-> stored]
    /\ dig = NoDigest

\* enz := newEnzyme(recogSeq)
NewEnzyme ==
    /\ recogSeq # <<>>
    /\ enz = NoEnzyme
    /\ enz' = newEnzyme(recogSeq)
    /\ UNCHANGED <<recogSeq, stored, frag, dig>>
    /\ UNCHANGED <<nodeVars, fragVars, dbVars>>

\* digest(frag, enz); the result keeps the sequence frag held when digest was called
Digest ==
    /\ enz # NoEnzyme
    /\ dig.outcome = "none"
    /\ dig' = digest(frag, enz)
    /\ frag' = [frag EXCEPT !.Seq = digest(frag, enz).fragSeq]
    /\ UNCHANGED <<recogSeq, enz, stored>>
    /\ UNCHANGED <<nodeVars, fragVars, dbVars>>

NextDigest == NewEnzyme \/ Digest

----------------------------------------------------------------------------
(* The enzyme store: NewEnzymeDB, EnzymeDB.SetCmd, EnzymeDB.DeleteCmd *)

TAB == "\t"

NL == "\n"

\* the lines bufio.Scanner yields: the text between newlines, a last line
\* without a newline included
RECURSIVE Lines(_)
Lines(text) ==
    IF text = <<>> THEN <<>>
    ELSE LET k == Index(text, NL) IN
         IF k = -1 THEN <<text>>
         ELSE <<Slice(text, 0, k)>> \o Lines(Slice(text, k + 1, Len(text)))

\* strings.Split(line, "\t")
RECURSIVE Columns(_)
Columns(line) ==
    LET k == Index(line, TAB) IN
    IF k = -1 THEN <<line>>
    ELSE <<Slice(line, 0, k)>> \o Columns(Slice(line, k + 1, Len(line)))

\* strings.Join(args, " ")
RECURSIVE Join(_)
Join(args) ==
    IF args = <<>> THEN <<>>
    ELSE IF Len(args) = 1 THEN args[1]
    ELSE args[1] \o <<" ">> \o Join(Tail(args))

\* the concatenation of a sequence of strings
RECURSIVE Concat(_)
Concat(parts) == IF parts = <<>> THEN <<>> ELSE Head(parts) \o Concat(Tail(parts))

\* strings.ToUpper on one character
ToUpperChar(c) ==
    CASE c = "a" -> "A"
      [] c = "c" -> "C"
      [] c = "g" -> "G"
      [] c = "t" -> "T"
      [] OTHER -> c

ToUpper(str) == [k \in 1..Len(str) |-> ToUpperChar(str[k])]

\* the characters the invalidChars regex [^ATGCMRWYSKHDVBNX_\^] keeps
ValidChars ==
    {"A", "T", "G", "C", "M", "R", "W", "Y", "S", "K", "H", "D", "V", "B", "N", "X", "_", "^"}

\* seq as SetCmd stores it: upper-cased, with the invalid characters removed
sanitize(seq) == SelectSeq(ToUpper(seq), LAMBDA c : c \in ValidChars)

\* strings.Count(str, c)
Count(str, c) == Cardinality({k \in 1..Len(str) : str[k] = c})

\* SetCmd's check that only tests for a "^"
validRecognitionCutOnly(seq) == Count(seq, "^") = 1

\* the negation of SetCmd's "Count(seq, "^") != 1 || Count(seq, "_") != 1"
validRecognition(seq) == ~(Count(seq, "^") # 1 \/ Count(seq, "_") # 1)

\* the name SetCmd takes from its arguments
setName(args) == IF Len(args) > 2 THEN Join(Slice(args, 0, Len(args) - 1)) ELSE args[1]

\* the sequence SetCmd takes from its arguments, sanitized
setSeq(args) == sanitize(IF Len(args) > 2 THEN args[Len(args)] ELSE args[2])

\* the name DeleteCmd takes from its arguments
deleteName(args) == IF Len(args) > 1 THEN Join(args) ELSE args[1]

\* fmt.Sprintf("%s\t%s\n", name, seq)
Record(name, seq) == name \o <<TAB>> \o seq \o <<NL>>

\* what SetCmd writes: the lines of the file, the one of name replaced (and
\* ended with a newline), the others as scanned; a new record when none matched
setOutput(text, name, seq) ==
    LET ls == Lines(text)
        updated == \E k \in 1..Len(ls) : Columns(ls[k])[1] = name
        body == Concat([k \in 1..Len(ls) |->
                          IF Columns(ls[k])[1] = name THEN Record(name, seq) ELSE ls[k]])
    IN  [updated |-> updated,
         text |-> IF updated THEN body ELSE body \o Record(name, seq)]

\* what DeleteCmd writes: the lines of the file other than those of name, as scanned
deleteOutput(text, name) ==
    LET ls == Lines(text)
        kept == SelectSeq(ls, LAMBDA l : Columns(l)[1] # name)
    IN  [deleted |-> Len(kept) < Len(ls), text |-> Concat(kept)]

\* m with name mapped to seq
MapSet(m, name, seq) ==
    [n \in (DOMAIN m) \cup {name} |-> IF n = name THEN seq ELSE m[n]]

\* m without name
MapDelete(m, name) == [n \in (DOMAIN m) \ {name} |-> m[n]]

EmptyMap == [n \in {} |-> <<>>]

\* NewEnzymeDB's loop over the first k lines: enzymes[columns[0]] = columns[1]
RECURSIVE loadLines(_, _)
loadLines(ls, k) ==
    IF k = 0 THEN EmptyMap
    ELSE MapSet(loadLines(ls, k - 1), Columns(ls[k])[1], Columns(ls[k])[2])

\* every line has the second column that NewEnzymeDB indexes
loadable(text) == \A k \in 1..Len(Lines(text)) : Len(Columns(Lines(text)[k])) >= 2

\* the map NewEnzymeDB builds from the file
load(text) == loadLines(Lines(text), Len(Lines(text)))

(* Bounds and inputs of the store *)

\* most SetCmd and DeleteCmd calls in one run
MaxOps == 2

\* every recognition sequence of up to MaxSeqLen characters is typed
MaxSeqLen == 2

\* the characters the user types: a base in lower case and the two cut markers
RawChars == {"a", "^", "_"}

\* what the user types as a recognition sequence: every short string, sites
\* with both markers, sites with a marker too many, and strings holding
\* characters that are not part of a recognition sequence
RawSeqs ==
    UNION {[1..k -> RawChars] : k \in 0..MaxSeqLen}
        \cup { <<"a", "^", "_">>, <<"^", "a", "_">>, <<"_", "a", "^">>,
               <<"^", "^", "_">>, <<"^", "_", "_">>, <<"^", "^", "_", "_">>,
               <<"^", "-", "_">>, <<"-", "a", "1">>, <<"_", "z", "^", " ">>,
               <<"^", "-", "^", "_">> }

\* the name arguments: a name of one word and a name of two words
NameArgs == { << <<"a">> >>, << <<"a">>, <<"b">> >> }

SetArgs == {n \o <<q>> : n \in NameArgs, q \in RawSeqs} \cup { << <<"a">> >> }

DeleteArgs == NameArgs \cup {<<>>}

\* the enzyme files the program starts with
InitFiles ==
    { <<>>,
      Record(<<"a">>, <<"A", "^", "_">>),
      Record(<<"a">>, <<"A", "^", "_">>) \o Record(<<"b">>, <<"^", "A", "_">>) }

\* cmd records the last call: its name and sequence arguments as the command
\* took them, and the in-memory map it found
NoCmd == [op |-> "none", name |-> <<>>, seq |-> <<>>, before |-> EmptyMap]

IdleDB ==
    /\ enzymeFile = <<>>
    /\ enzymes = EmptyMap
    /\ proc = "exited"
    /\ cmd = NoCmd
    /\ out = "none"
    /\ ops = MaxOps

\* the state NewEnzymeDB leaves at startup
InitDB ==
    /\ enzymeFile \in InitFiles
    /\ enzymes = load(enzymeFile)
    /\ proc = "running"
    /\ cmd = [op |-> "NewEnzymeDB", name |-> <<>>, seq |-> <<>>, before |-> EmptyMap]
    /\ out = "none"
    /\ ops = 0

\* a new process starts and loads the store from the file
NewEnzymeDB ==
    /\ cmd' = [op |-> "NewEnzymeDB", name |-> <<>>, seq |-> <<>>, before |-> EmptyMap]
    /\ IF loadable(enzymeFile)
       THEN /\ enzymes' = load(enzymeFile)
            /\ proc' = "running"
            /\ out' = "none"
       ELSE /\ enzymes' = EmptyMap
            /\ proc' = "exited"
            /\ out' = "panic: index out of range"
    /\ UNCHANGED <<enzymeFile, ops>>
    /\ UNCHANGED <<nodeVars, fragVars, digVars>>

\* EnzymeDB.SetCmd(cmd, args)
SetCmd(args) ==
    /\ proc = "running"
    /\ ops < MaxOps
    /\ ops' = ops + 1
    /\ cmd' = IF Len(args) < 2
              THEN [op |-> "SetCmd", name |-> <<>>, seq |-> <<>>, before |-> enzymes]
              ELSE [op |-> "SetCmd", name |-> setName(args), seq |-> setSeq(args),
                    before |-> enzymes]
    /\ IF Len(args) < 2
       THEN /\ proc' = "exited"
            /\ out' = "expecting two args: a name and recognition sequence."
            /\ UNCHANGED <<enzymeFile, enzymes>>
       ELSE IF ~validRecognition(setSeq(args))
       THEN /\ proc' = "exited"
            /\ out' = "is not a valid enzyme recognition sequence"
            /\ UNCHANGED <<enzymeFile, enzymes>>
       ELSE LET name == setName(args)
                seq == setSeq(args)
                output == setOutput(enzymeFile, name, seq)
            IN  /\ enzymeFile' = output.text
                /\ enzymes' = MapSet(enzymes, name, seq)
                /\ out' = IF output.updated THEN "updated" ELSE "none"
                /\ proc' = proc
    /\ UNCHANGED <<nodeVars, fragVars, digVars>>

\* EnzymeDB.DeleteCmd(cmd, args)
DeleteCmd(args) ==
    /\ proc = "running"
    /\ ops < MaxOps
    /\ ops' = ops + 1
    /\ cmd' = IF Len(args) < 1
              THEN [op |-> "DeleteCmd", name |-> <<>>, seq |-> <<>>, before |-> enzymes]
              ELSE [op |-> "DeleteCmd", name |-> deleteName(args), seq |-> <<>>,
                    before |-> enzymes]
    /\ IF Len(args) < 1
       THEN /\ proc' = "exited"
            /\ out' = "expecting an enzymes name."
            /\ UNCHANGED <<enzymeFile, enzymes>>
       ELSE LET name == deleteName(args)
                output == deleteOutput(enzymeFile, name)
            IN  /\ enzymeFile' = output.text
                /\ enzymes' = MapDelete(enzymes, name)
                /\ out' = IF output.deleted THEN "deleted" ELSE "failed to find"
                /\ proc' = proc
    /\ UNCHANGED <<nodeVars, fragVars, digVars>>

NextDB ==
    \/ NewEnzymeDB
    \/ \E args \in SetArgs : SetCmd(args)
    \/ \E args \in DeleteArgs : DeleteCmd(args)

----------------------------------------------------------------------------
(* Specifications *)

InitSpecNode == InitNode /\ IdleFrags /\ IdleDigest /\ IdleDB

SpecNode == InitSpecNode /\ [][NextNode]_vars

InitSpecFrags == IdleNode /\ InitFrags /\ IdleDigest /\ IdleDB

SpecFrags == InitSpecFrags /\ [][NextFrags]_vars

InitSpecDigest == IdleNode /\ IdleFrags /\ InitDigest /\ IdleDB

SpecDigest == InitSpecDigest /\ [][NextDigest]_vars

InitSpecDB == IdleNode /\ IdleFrags /\ IdleDigest /\ InitDB

SpecDB == InitSpecDB /\ [][NextDB]_vars

----------------------------------------------------------------------------
(* Properties of the node methods *)

RetN == At(nodes, ret.i)

RetM == At(nodes, ret.j)

\* number of bases the inclusive spans of n and m share
Overlap(n, m) == Max(0, Min(n.end, m.end) - Max(n.start, m.start) + 1)

\* nodes[k] lacks the overlap that reach accepts for free
Insufficient(n, k) == distTo(n, At(nodes, k)) >= -MinOverlap

\* the run nodes[i+1..k] holds at most synthCount nodes without enough overlap
Affordable(n, i, k, synthCount) ==
    Cardinality({x \in (i + 1)..k : Insufficient(n, x)}) <= synthCount

\* the last index of the longest affordable run that starts at i+1 (i when it is empty)
RunEnd(n, i, synthCount) ==
    CHOOSE k \in i..(Len(nodes) - 1) :
        /\ Affordable(n, i, k, synthCount)
        /\ \A k2 \in (k + 1)..(Len(nodes) - 1) : ~Affordable(n, i, k2, synthCount)

\* C1: reach returns, in list order, exactly the longest contiguous run
\* nodes[i+1..k] holding at most synthCount nodes with distTo >= -20; nodes
\* with distTo < -20 are free, and nothing after the stop point is returned.
C1_ReachLongestAffordableRun ==
    ret.op = "reach" =>
        ret.reachable = Slice(nodes, ret.i + 1, RunEnd(RetN, ret.i, ret.synthCount) + 1)

\* a reach that took a node for free and then stopped before the end of the slice
C1_Witness ==
    /\ ret.op = "reach"
    /\ Len(ret.reachable) < Len(nodes) - ret.i - 1
    /\ \E k \in 1..Len(ret.reachable) : distTo(RetN, ret.reachable[k]) < -MinOverlap

C3_SynthDistIsCeiling ==
    ret.op = "synthDist" =>
        LET dist == distTo(RetN, RetM)
            maxLen == conf.Synthesis.MaxLength
        IN  /\ dist <= 0 => ret.val = 0
            /\ dist > 0 => /\ ret.val * maxLen >= dist
                           /\ (ret.val - 1) * maxLen < dist
            /\ 2 * dist = 7 * maxLen => ret.val = 4

\* a synthDist call over a gap of 3.5 times the maximum synthesis length
C3_Witness ==
    /\ ret.op = "synthDist"
    /\ 2 * distTo(RetN, RetM) = 7 * conf.Synthesis.MaxLength
    /\ ret.val = 4

\* C4: a negative distTo(n, m) means the spans of n and m share exactly
\* -distTo(n, m) bases, and a positive one means there is a gap between them.
C4_DistToNegativeIsOverlap ==
    ret.op = "distTo" =>
        /\ ret.val < 0 => Overlap(RetN, RetM) = -ret.val
        /\ ret.val > 0 => Overlap(RetN, RetM) = 0

\* the slice is sorted by ascending start, as the Node Graph Builder leaves it
SortedByStart == Ascending(nodes)

\* C5: a successor m (later in the start-sorted slice) whose span overlaps n's
\* by 25 bases is existing homology: reach returns it without budget, costTo
\* is the fixed 60 * PCR.BPCost and synthDist is 0.
C5_Overlap25IsExistingHomology ==
    /\ (/\ ret.op = "reach"
        /\ SortedByStart
        /\ ret.synthCount = 0
        /\ ret.i + 1 < Len(nodes)
        /\ Overlap(RetN, At(nodes, ret.i + 1)) = 25)
          => /\ Len(ret.reachable) >= 1
             /\ ret.reachable[1] = At(nodes, ret.i + 1)
    /\ (/\ ret.op \in {"costTo", "synthDist"}
        /\ SortedByStart
        /\ ret.i < ret.j
        /\ Overlap(RetN, RetM) = 25)
          => /\ ret.op = "costTo" => ret.val = PrimerBP * conf.PCR.BPCost
             /\ ret.op = "synthDist" => ret.val = 0

----------------------------------------------------------------------------
(* Properties of assembleFragments *)

\* position p of the circular target lies in the span of frag k
Covers(k, p) ==
    \E x \in frags[k].start..frags[k].end : x % targetVector = p

\* the bases the span of frag k shares with the span of the frag after it,
\* the first frag standing one target length further on after the last
SpanOverlap(k) ==
    IF k < Len(frags)
    THEN frags[k].end - frags[k + 1].start + 1
    ELSE frags[k].end - (frags[1].start + targetVector) + 1

\* C6: in the assembly assembleFragments builds, the spans taken modulo the
\* target length cover every position of [0, targetLength), and spans share
\* positions only where adjacent fragments overlap by their declared junction.
C6_SpansCoverTargetOnce ==
    targetVector > 0 =>
        /\ \A p \in 0..(targetVector - 1) : \E k \in 1..Len(frags) : Covers(k, p)
        /\ \A k \in 1..Len(frags) : SpanOverlap(k) = junctionLens[k - 1]

----------------------------------------------------------------------------
(* Properties of newEnzyme and digest *)

Markers == {"^", "_"}

\* the 1-based place of the marker c in a string that holds it once
MarkerAt(s, c) == CHOOSE k \in 1..Len(s) : s[k] = c

\* how many bases of s stand before its marker c
BasesBefore(s, c) ==
    Cardinality({k \in 1..(MarkerAt(s, c) - 1) : s[k] \notin Markers})

\* s holds the character c exactly once
HoldsOnce(s, c) == Cardinality({k \in 1..Len(s) : s[k] = c}) = 1

\* x is some sequence written twice
IsDoubled(x) == \E h \in 1..Len(x) : x = Slice(x, 0, h) \o Slice(x, 0, h)

\* reg matches the circular sequence x at the 0-based index i, running past the origin
MatchCircular(reg, x, i) ==
    \A k \in 1..Len(reg) : x[((i + k - 1) % Len(x)) + 1] \in reg[k]

\* the recognition pattern occurs on the circular strand x
SiteOn(x, e) ==
    LET reg == recogRegex(e.recog) IN
    \E i \in 0..(Len(x) - 1) : MatchCircular(reg, x, i)

C9_ErrorWhenNoCutsite ==
    dig.outcome # "none" =>
        /\ (\/ Len(stored) < WrappedBp
            \/ (~SiteOn(frag.Seq, enz) /\ ~SiteOn(reverseComplement(frag.Seq), enz)))
              => /\ dig.outcome = "error"
                 /\ dig.digested = EmptyFrag
                 /\ dig.backbone = EmptyBackbone
        /\ dig.outcome = "ok"
              => dig.backbone.RecognitionIndex \in 0..(Len(frag.Seq) - 1)

\* C10: for a recognition string with exactly one "^" and one "_", newEnzyme
\* returns the string without the markers, the number of bases before "^" as
\* seqCutIndex and the number of bases before "_" as compCutIndex, both in
\* [0, len(recog)]; CC^TCA_GC gives CCTCAGC, 2 and 5.
C10_NewEnzymeCutIndices ==
    (enz # NoEnzyme /\ HoldsOnce(recogSeq, "^") /\ HoldsOnce(recogSeq, "_")) =>
        /\ enz.recog = SelectSeq(recogSeq, LAMBDA c : c \notin Markers)
        /\ enz.seqCutIndex = BasesBefore(recogSeq, "^")
        /\ enz.compCutIndex = BasesBefore(recogSeq, "_")
        /\ enz.seqCutIndex \in 0..Len(enz.recog)
        /\ enz.compCutIndex \in 0..Len(enz.recog)
        /\ recogSeq = <<"C", "C", "^", "T", "C", "A", "_", "G", "C">>
              => /\ enz.recog = <<"C", "C", "T", "C", "A", "G", "C">>
                 /\ enz.seqCutIndex = 2
                 /\ enz.compCutIndex = 5

\* newEnzyme applied to CC^TCA_GC
C10_Witness ==
    /\ recogSeq = <<"C", "C", "^", "T", "C", "A", "_", "G", "C">>
    /\ enz.recog = <<"C", "C", "T", "C", "A", "G", "C">>
    /\ enz.seqCutIndex = 2
    /\ enz.compCutIndex = 5

----------------------------------------------------------------------------
(* Properties of the enzyme store *)

\* a recognition sequence with exactly one "^" and exactly one "_"
OneOfEachMarker(seq) == HoldsOnce(seq, "^") /\ HoldsOnce(seq, "_")

\* the step changed the enzyme file or the in-memory map
StoreChanged == enzymeFile' # enzymeFile \/ enzymes' # enzymes

\* C7: SetCmd rejects every recognition sequence that, upper-cased and
\* stripped of the characters outside ATGCMRWYSKHDVBNX_^, does not hold exactly
\* one "^" and one "_", before any write: the file and the map stay as they
\* were; so every record SetCmd writes holds exactly one of each marker.
C7_InvalidRecognitionRejected ==
    [][cmd'.op = "SetCmd" =>
          /\ ~OneOfEachMarker(cmd'.seq) => (~StoreChanged /\ proc' = "exited")
          /\ StoreChanged =>
                /\ OneOfEachMarker(cmd'.seq)
                /\ cmd'.name \in DOMAIN enzymes'
                /\ enzymes'[cmd'.name] = cmd'.seq]_vars

\* a SetCmd that was refused for a second "^", with enzymes in the store
C7_Witness ==
    /\ cmd.op = "SetCmd"
    /\ proc = "exited"
    /\ Count(cmd.seq, "^") = 2
    /\ Count(cmd.seq, "_") = 1
    /\ enzymes # EmptyMap

\* the call of this step ran to its end: it was not stopped by stderr.Fatal
Completed(op) == cmd'.op = op /\ proc' = "running"

\* every entry other than the one of name is the same in maps a and b
SameOthers(a, b, name) ==
    /\ (DOMAIN a) \ {name} = (DOMAIN b) \ {name}
    /\ \A n \in (DOMAIN a) \ {name} : a[n] = b[n]

\* the file holds the records of the in-memory map
FileAgrees(text, m) == loadable(text) /\ load(text) = m

\* SetCmd and DeleteCmd touch only the named entry of the in-memory map, and
\* a call that was refused touches none
MapFrame ==
    /\ Completed("SetCmd") =>
          /\ cmd'.name \in DOMAIN enzymes'
          /\ enzymes'[cmd'.name] = cmd'.seq
          /\ SameOthers(enzymes, enzymes', cmd'.name)
    /\ Completed("DeleteCmd") =>
          /\ cmd'.name \notin DOMAIN enzymes'
          /\ SameOthers(enzymes, enzymes', cmd'.name)
    /\ (cmd'.op \in {"SetCmd", "DeleteCmd"} /\ proc' = "exited") => ~StoreChanged

\* DeleteCmd of a name that is not in the store leaves the map as it was, and
\* the file with the records it held
DeleteAbsentFrame ==
    (Completed("DeleteCmd") /\ cmd'.name \notin DOMAIN enzymes
        /\ FileAgrees(enzymeFile, enzymes)) =>
          /\ enzymes' = enzymes
          /\ FileAgrees(enzymeFile', enzymes)

\* SetCmd and then DeleteCmd of the same name give back the entries there
\* were before the SetCmd
SetDeleteRoundTrip ==
    (cmd.op = "SetCmd" /\ proc = "running"
        /\ Completed("DeleteCmd") /\ cmd'.name = cmd.name) =>
          enzymes' = cmd.before

\* C11: the enzyme store changes only through SetCmd and DeleteCmd, each
\* touching only the named entry: after a valid SetCmd the map holds name ->
\* sanitized seq and every other entry is unchanged; after DeleteCmd the name
\* is absent and every other entry is unchanged; DeleteCmd of a name that is
\* not in the store leaves the store unchanged; both commands join the words
\* of a name alike, so SetCmd followed by DeleteCmd of the same name restores
\* the previous set of entries.
C11_StoreFrame == [][MapFrame /\ DeleteAbsentFrame /\ SetDeleteRoundTrip]_vars

\* the newline-delimited name<TAB>sequence format: every line is one record of
\* two columns and ends with a newline
RecordFormat(text) ==
    /\ text # <<>> => text[Len(text)] = NL
    /\ \A k \in 1..Len(Lines(text)) : Len(Columns(Lines(text)[k])) = 2

\* C12: after a valid SetCmd or DeleteCmd on an enzyme store holding two or
\* more records, the enzyme file is still in the newline-delimited
\* name<TAB>sequence format and NewEnzymeDB would load from it exactly the
\* entries of the in-memory map.
C12_FileAgreesWithMap ==
    (proc = "running" /\ cmd.op \in {"SetCmd", "DeleteCmd"}
        /\ Cardinality(DOMAIN cmd.before) >= 2) =>
          /\ RecordFormat(enzymeFile)
          /\ FileAgrees(enzymeFile, enzymes)

----------------------------------------------------------------------------
(* Properties of the offset pass, continued *)

\* the length of the vector built from the first k frags: each adds its
\* sequence less the junction with the next frag
RECURSIVE BuiltLen(_)
BuiltLen(k) ==
    IF k = 0 THEN 0 ELSE BuiltLen(k - 1) + (frags[k].len - junctionLens[k - 1])

\* C13: in the offset pass every frag gets end = start + len(seq) - 1;
\* consecutive frags overlap by exactly their junction, frags[i+1].start =
\* frags[i].end + 1 - len(junction(frags[i], frags[i+1])); each start is the
\* position in the built vector where the frag's own sequence begins; the
\* built vector is as long as the sum of len(seq) - len(junction with the next).
C13_OffsetsFollowJunctions ==
    /\ \A k \in 1..fi :
          /\ frags[k].end = frags[k].start + frags[k].len - 1
          /\ frags[k].start = BuiltLen(k - 1)
    /\ \A k \in 1..(fi - 1) :
          frags[k + 1].start = frags[k].end + 1 - junctionLens[k - 1]
    /\ vectorSeq = BuiltLen(fi)
    /\ targetVector # -1 => targetVector = BuiltLen(Len(frags))

----------------------------------------------------------------------------
(* Properties of digest, continued *)

\* the indices on the fragment x where the recognition pattern starts on the
\* top strand, the sequence read as a circle
TopSites(x, e) ==
    {i \in 0..(Len(x) - 1) : MatchCircular(recogRegex(e.recog), x, i)}

\* the indices on the fragment x under which the pattern lies on the
\* reverse-complement strand
RevSites(x, e) ==
    {i \in 0..(Len(x) - 1) :
        MatchCircular(recogRegex(e.recog), reverseComplement(x),
                      (2 * Len(x) - i - Len(e.recog)) % Len(x))}

\* the least member of a non-empty set of numbers
Least(S) == CHOOSE i \in S : \A i2 \in S : i <= i2

\* C14: digest cuts at the first recognition site of the sequence: of the
\* occurrences of the pattern on the top strand and on the reverse-complement
\* strand the one with the smallest index on the fragment is RecognitionIndex,
\* and Forward is true exactly when that site is on the top strand.
C14_FirstSiteOfEitherStrand ==
    (dig.outcome = "ok"
        /\ TopSites(frag.Seq, enz) # {} /\ RevSites(frag.Seq, enz) # {}) =>
          /\ dig.backbone.RecognitionIndex
                = Least(TopSites(frag.Seq, enz) \cup RevSites(frag.Seq, enz))
          /\ dig.backbone.Forward
                <=> dig.backbone.RecognitionIndex \in TopSites(frag.Seq, enz)

\* C15: digest never slices outside the fragment sequence: for every fragment
\* that passes the 38-base length check and every enzyme it completes and
\* returns a (digested, backbone) result or an error value.
C15_DigestNeverPanics ==
    (dig.outcome # "none" /\ Len(stored) >= WrappedBp) =>
        dig.outcome \in {"ok", "error"}

----------------------------------------------------------------------------
(* Properties of the node methods, continued *)

\* C16: costTo never yields a negative cost: with non-negative PCR.BPCost and
\* Synthesis.BPCost it is >= 0 for every pair of nodes, whatever the sign of
\* distTo, and a synthesis cost is charged only for pairs with synthDist > 0.
C16_CostToNonNegative ==
    (ret.op = "costTo" /\ conf.PCR.BPCost >= 0 /\ conf.Synthesis.BPCost >= 0) =>
        /\ ret.val >= 0
        /\ (ret.val # 0 /\ ret.val # PrimerBP * conf.PCR.BPCost)
              => synthDist(RetN, RetM) > 0

----------------------------------------------------------------------------
(* Properties of digest: the returned fragment *)

\* the n bases of the circular sequence x read from the 0-based index i
CircularRead(x, i, n) == [k \in 1..n |-> x[((i + k - 1) % Len(x)) + 1]]

\* C17: the fragment of a successful digest is a linearization of the circular
\* backbone: when seqCutIndex >= compCutIndex it is the rotation of frag.Seq
\* that starts at (recogIndex + seqCutIndex) mod len(frag.Seq), of the same
\* length; when seqCutIndex < compCutIndex it is frag.Seq without exactly the
\* compCutIndex - seqCutIndex overhang bases, so never longer than frag.Seq,
\* for every recognition index, wrapping cut positions included.
C17_DigestedIsLinearization ==
    dig.outcome = "ok" =>
        LET s == frag.Seq
            r == dig.backbone.RecognitionIndex
            overhang == enz.compCutIndex - enz.seqCutIndex
        IN  IF enz.seqCutIndex >= enz.compCutIndex
            THEN dig.digested.Seq = CircularRead(s, r + enz.seqCutIndex, Len(s))
            ELSE /\ Len(dig.digested.Seq) = Len(s) - overhang
                 /\ Len(dig.digested.Seq) <= Len(s)
                 /\ dig.digested.Seq
                       = CircularRead(s, r + enz.compCutIndex, Len(s) - overhang)

====
